---- MODULE Spec2Model ----
(***************************************************************************)
(* Model of the payment lifecycle tracker of passlabs                      *)
(* (backend/services/payment_service.py) together with the parts of the    *)
(* blockchain gateway (backend/services/blockchain_service.py), of the     *)
(* validators (backend/utils/validators.py) and of the configuration      *)
(* (backend/config.py) that it uses.                                       *)
(*                                                                         *)
(* Conventions.  Python None is the integer None (-1) for identifiers,     *)
(* hashes, block numbers and timestamps, and the string "None" for the     *)
(* error text.  Python strings that the code inspects character by         *)
(* character (addresses, stablecoin symbols) are sequences of one-         *)
(* character strings.  Amounts are counted in hundredths (0.01 = 1).       *)
(* uuid.uuid4() is modelled as a generator of fresh values: the n-th       *)
(* identifier stored is n.  A value of uuid4 or of the clock that is       *)
(* thrown away by a call that raises is never observed, so only the        *)
(* values that are stored are counted.  A method that returns a stored     *)
(* dict returns the object itself, so its return value is the payment_id   *)
(* the dict is stored under, and a list of stored dicts is the sequence    *)
(* of their payment_ids.  The Optional[Dict] get_specific_stablecoin       *)
(* returns is a sequence: the quote alone, or empty for None.              *)
(*                                                                         *)
(* The price cache (backend/services/defi_llama_service.py) shares no      *)
(* state with the payment tracker; it is the specification PriceSpec, the  *)
(* payment tracker is Spec.                                                *)
(***************************************************************************)
EXTENDS Integers, Sequences, FiniteSets, TLC

\* ------------------------------------------------------------------ bounds
MaxPayments == 2    \* payment ids uuid4 hands out to create_payment
MaxHashes == 2      \* transaction hashes uuid4 hands out to the send path
MaxBlock == 2       \* highest block number the chain is observed at
MaxInFlight == 1    \* send_payment_transaction calls suspended at a time
CacheTtl == 2       \* CACHE_TTL, in ticks of the clock of the price cache
MaxTime == 4        \* last tick of that clock
MaxFetching == 2    \* get_stablecoin_prices calls suspended at a time

None == 0 - 1

\* ------------------------------------------------------- strings as data
Rep(c, n) == [i \in 1..n |-> c]

Str0x == <<"0", "x">>

HexDigits ==
  {"0", "1", "2", "3", "4", "5", "6", "7", "8", "9",
   "a", "b", "c", "d", "e", "f", "A", "B", "C", "D", "E", "F"}

Whitespace == {" ", "\t", "\n"}

\* str.startswith
StartsWith(s, pre) ==
  /\ Len(s) >= Len(pre)
  /\ \A i \in 1..Len(pre) : s[i] = pre[i]

\* str.rstrip(): int() ignores surrounding whitespace
RECURSIVE RStrip(_)
RStrip(s) ==
  IF Len(s) > 0 /\ s[Len(s)] \in Whitespace
    THEN RStrip(SubSeq(s, 1, Len(s) - 1))
    ELSE s

\* int(s, 16) for a string that starts with "0x": no ValueError is raised
\* iff, after the prefix and ignoring trailing whitespace, there is at least
\* one hex digit, every character is a hex digit or "_", underscores are
\* single and the text does not end in one.
ParsesAsHex(s) ==
  LET body == RStrip(SubSeq(s, 3, Len(s)))
  IN /\ Len(body) > 0
     /\ \A i \in 1..Len(body) : body[i] \in HexDigits \cup {"_"}
     /\ body[Len(body)] # "_"
     /\ \A i \in 1..(Len(body) - 1) : ~(body[i] = "_" /\ body[i + 1] = "_")

AddressLen == 42

is_valid_ethereum_address(address) ==
  IF Len(address) = 0 THEN FALSE
  ELSE IF ~StartsWith(address, Str0x) \/ Len(address) # AddressLen THEN FALSE
  ELSE ParsesAsHex(address)

\* amounts: [kind, cents]; kind "num" is an int or float, "nan" is
\* float("nan"), "str" is a value that is not a number
MinAmountCents == 1
MaxAmountCents == 100000000

is_valid_amount(amount) ==
  IF amount.kind = "str" THEN FALSE
  ELSE IF amount.kind = "nan" THEN TRUE   \* both comparisons are False
  ELSE IF amount.cents < MinAmountCents \/ amount.cents > MaxAmountCents
    THEN FALSE
  ELSE TRUE

UpperChar(c) ==
  CASE c = "u" -> "U" [] c = "s" -> "S" [] c = "d" -> "D" [] c = "c" -> "C"
    [] c = "t" -> "T" [] c = "a" -> "A" [] c = "i" -> "I" [] c = "f" -> "F"
    [] c = "k" -> "K" [] c = "e" -> "E" [] OTHER -> c

\* str.upper
Upper(s) == [i \in 1..Len(s) |-> UpperChar(s[i])]

USDC == <<"U", "S", "D", "C">>
USDT == <<"U", "S", "D", "T">>
DAI == <<"D", "A", "I">>

ValidCoins == {USDC, USDT, DAI}

is_valid_stablecoin(stablecoin) == Upper(stablecoin) \in ValidCoins

\* ------------------------------------------------------------ configuration
\* Settings of config.py; every address is read from the environment with a
\* default, so it can be configured empty.
DefaultSettings ==
  [USDC_ADDRESS |-> "0x06eFdBFf2a14a7c8E15944D1F4A48F9F95F663A4",
   USDT_ADDRESS |-> "0xf55BEC9cafDbE8730f096Aa55dad6D22d44099Df",
   DAI_ADDRESS |-> "0xcA77eB3fEFe3725Dc33bccB54eDEFc3D9f764f97",
   CACHE_TTL |-> CacheTtl,
   STABLECOINS |-> {USDC, USDT, DAI}]

SettingsChoices ==
  {DefaultSettings, [DefaultSettings EXCEPT !.USDC_ADDRESS = ""]}

\* ------------------------------------------------------------------- inputs
AddrValid == Str0x \o Rep("a", 40)
\* the 41-character address the tests use
AddrShort ==
  <<"0", "x", "7", "4", "2", "d", "3", "5", "C", "c", "6", "6", "3", "4",
    "C", "0", "5", "3", "2", "9", "2", "5", "a", "3", "b", "8", "4", "4",
    "B", "c", "9", "e", "7", "5", "9", "5", "f", "1", "b", "E", "b">>
AddrNotHex == Str0x \o Rep("g", 40)
AddrNoPrefix == Rep("a", 42)
AddrUnderscores == Str0x \o Rep("_", 40)
AddrEmpty == <<>>

Num(c) == [kind |-> "num", cents |-> c]

CreateRequests ==
  {[recipient_address |-> AddrValid, amount |-> Num(10050),
    stablecoin |-> <<"u", "s", "d", "c">>],
   [recipient_address |-> AddrShort, amount |-> Num(10050), stablecoin |-> USDC],
   [recipient_address |-> AddrNotHex, amount |-> Num(10050), stablecoin |-> USDC],
   [recipient_address |-> AddrNoPrefix, amount |-> Num(10050), stablecoin |-> USDC],
   [recipient_address |-> AddrUnderscores, amount |-> Num(10050), stablecoin |-> USDC],
   [recipient_address |-> AddrEmpty, amount |-> Num(10050), stablecoin |-> USDC],
   [recipient_address |-> AddrValid, amount |-> Num(0), stablecoin |-> USDC],
   [recipient_address |-> AddrValid, amount |-> Num(100000001), stablecoin |-> USDC],
   [recipient_address |-> AddrValid, amount |-> [kind |-> "str", cents |-> 0],
    stablecoin |-> USDC],
   [recipient_address |-> AddrValid, amount |-> Num(10050),
    stablecoin |-> <<"F", "A", "K", "E">>]}

\* what blockchain_service.is_token_allowed does for the call
TokenAnswers == {"true", "false", "raise"}

\* ------------------------------------------------------------------- state
VARIABLES
  settings,             \* config.settings
  payments_cache,       \* PaymentService.payments_cache: payment_id -> record
  tx_hash_to_payment,   \* PaymentService.tx_hash_to_payment: tx_hash -> payment_id
  uuid_payments,        \* number of payment ids uuid4 generated that were stored
  uuid_hashes,          \* number of transaction hashes uuid4 generated
  now,                  \* datetime.utcnow(): number of readings that were stored
  in_flight,            \* payment_id -> send calls suspended in asyncio.sleep
  called,               \* the method whose call completed last
  raised,               \* the exception that call raised, "None" if it returned
  returned,             \* the value that call returned, None if it raised
  cache,                \* DeFiLlamaService.cache
  cache_timestamp,      \* DeFiLlamaService.cache_timestamp
  time,                 \* time.time()
  fetching              \* get_stablecoin_prices calls suspended in client.get

payment_vars ==
  <<payments_cache, tx_hash_to_payment, uuid_payments, uuid_hashes, now, in_flight>>

price_vars == <<cache, cache_timestamp, time, fetching>>

vars ==
  <<settings, payments_cache, tx_hash_to_payment, uuid_payments, uuid_hashes,
    now, in_flight, called, raised, returned, cache, cache_timestamp, time,
    fetching>>

Init ==
  /\ settings \in SettingsChoices
  /\ payments_cache = << >>
  /\ tx_hash_to_payment = << >>
  /\ uuid_payments = 0
  /\ uuid_hashes = 0
  /\ now = 0
  /\ in_flight = [p \in 1..MaxPayments |-> 0]
  /\ called = "__init__"
  /\ raised = "None"
  /\ returned = None
  /\ cache = << >>
  /\ cache_timestamp = None
  /\ time = 1
  /\ fetching = << >>

\* dict.get / dict[key] = value on the two maps
Has(map, key) == key \in DOMAIN map

Put(map, key, value) ==
  [k \in DOMAIN map \cup {key} |-> IF k = key THEN value ELSE map[k]]

Returns(method, value) ==
  called' = method /\ raised' = "None" /\ returned' = value

Raises(method, exception) ==
  called' = method /\ raised' = exception /\ returned' = None

\* --------------------------------------------------------- create_payment
\* PaymentService._get_token_address: None when the symbol is not in the map
_get_token_address(stablecoin) ==
  LET u == Upper(stablecoin)
  IN IF u = USDC THEN settings.USDC_ADDRESS
     ELSE IF u = USDT THEN settings.USDT_ADDRESS
     ELSE IF u = DAI THEN settings.DAI_ADDRESS
     ELSE "None"

\* PaymentService._verify_token_allowed: an exception of the gateway is
\* caught and answered False
_verify_token_allowed(answer) == answer = "true"

\* a generator that hands out the last identifier again
NewPaymentId_repeated == IF uuid_payments = 0 THEN 1 ELSE uuid_payments

\* uuid.uuid4() as create_payment uses it
NewPaymentId == uuid_payments + 1

\* a record that stores the symbol as the validators compare it, upper-cased
NewPayment_upper(req, payment_id) ==
  [payment_id |-> payment_id,
   tx_hash |-> None,
   recipient |-> req.recipient_address,
   amount |-> req.amount,
   stablecoin |-> Upper(req.stablecoin),
   token_address |-> _get_token_address(req.stablecoin),
   status |-> "pending",
   created_at |-> now,
   completed_at |-> None,
   confirmations |-> 0,
   block_number |-> None,
   error |-> "None"]

NewPayment(req, payment_id) ==
  [payment_id |-> payment_id,
   tx_hash |-> None,
   recipient |-> req.recipient_address,
   amount |-> req.amount,
   stablecoin |-> req.stablecoin,
   token_address |-> _get_token_address(req.stablecoin),
   status |-> "pending",
   created_at |-> now,
   completed_at |-> None,
   confirmations |-> 0,
   block_number |-> None,
   error |-> "None"]

\* the validation of create_payment, lines 65-81: does it raise ValueError
CreateRejects(req) ==
  \/ ~is_valid_ethereum_address(req.recipient_address)
  \/ ~is_valid_amount(req.amount)
  \/ ~is_valid_stablecoin(req.stablecoin)
  \/ _get_token_address(req.stablecoin) \in {"None", ""}

\* create_payment storing the record before the allow-list check of line 88
create_payment_stores_first(req, answer) ==
  /\ CreateRejects(req) \/ uuid_payments < MaxPayments
  /\ IF CreateRejects(req)
       THEN /\ Raises("create_payment", "ValueError")
            /\ UNCHANGED <<payments_cache, uuid_payments, now>>
       ELSE /\ payments_cache' =
                 Put(payments_cache, NewPaymentId, NewPayment(req, NewPaymentId))
            /\ uuid_payments' = uuid_payments + 1
            /\ now' = now + 1
            /\ IF ~_verify_token_allowed(answer)
                 THEN Raises("create_payment", "ValueError")
                 ELSE Returns("create_payment", NewPaymentId)
  /\ UNCHANGED <<settings, tx_hash_to_payment, uuid_hashes, in_flight>>
  /\ UNCHANGED price_vars

create_payment(req, answer) ==
  /\ CreateRejects(req) \/ uuid_payments < MaxPayments
  /\ IF CreateRejects(req)
       THEN /\ Raises("create_payment", "ValueError")
            /\ UNCHANGED <<payments_cache, uuid_payments, now>>
       ELSE LET payment_id == NewPaymentId
            IN IF ~_verify_token_allowed(answer)
                 THEN /\ Raises("create_payment", "ValueError")
                      /\ UNCHANGED <<payments_cache, uuid_payments, now>>
                 ELSE /\ payments_cache' =
                           Put(payments_cache, payment_id, NewPayment(req, payment_id))
                      /\ uuid_payments' = uuid_payments + 1
                      /\ now' = now + 1
                      /\ Returns("create_payment", payment_id)
  /\ UNCHANGED <<settings, tx_hash_to_payment, uuid_hashes, in_flight>>
  /\ UNCHANGED price_vars

\* ----------------------------------------------- send_payment_transaction
\* The coroutine suspends once, in asyncio.sleep inside
\* _send_blockchain_transaction, holding the record it looked up; other calls
\* run while it is suspended.  send_begin is the part before the suspension
\* (lines 146-160, 442-452), send_finish the part after it.
RECURSIVE Sum(_, _)
Sum(f, n) == IF n = 0 THEN 0 ELSE f[n] + Sum(f, n - 1)

InFlightTotal == Sum(in_flight, MaxPayments)

send_begin(payment_id) ==
  /\ IF ~Has(payments_cache, payment_id)
       THEN /\ Raises("send_payment_transaction", "ValueError")
            /\ UNCHANGED in_flight
       ELSE /\ InFlightTotal < MaxInFlight
            /\ in_flight' = [in_flight EXCEPT ![payment_id] = @ + 1]
            /\ UNCHANGED <<called, raised, returned>>
  /\ UNCHANGED <<settings, payments_cache, tx_hash_to_payment, uuid_payments,
                 uuid_hashes, now>>
  /\ UNCHANGED price_vars

\* what _send_blockchain_transaction does after the suspension: it returns a
\* hash, or raises as its contract says ("Raises: Exception")
SendOutcomes == {"hash", "raise"}

\* uuid.uuid4() as _send_blockchain_transaction uses it
NewTxHash == uuid_hashes + 1

\* a send that records the hash and leaves the status
Submitted_keeps_status(payment, tx_hash) ==
  [payment EXCEPT !.tx_hash = tx_hash]

\* lines 162-165
Submitted(payment, tx_hash) ==
  [payment EXCEPT !.tx_hash = tx_hash, !.status = "submitted"]

\* a failure path that forgets the error text
SendFailed_without_error(payment) ==
  [payment EXCEPT !.status = "failed"]

\* lines 177-179
SendFailed(payment) ==
  [payment EXCEPT !.status = "failed", !.error = "str(e)"]

send_finish(payment_id, outcome) ==
  /\ Has(payments_cache, payment_id)
  /\ in_flight[payment_id] > 0
  /\ in_flight' = [in_flight EXCEPT ![payment_id] = @ - 1]
  /\ IF outcome = "hash"
       THEN /\ uuid_hashes < MaxHashes
            /\ uuid_hashes' = uuid_hashes + 1
            /\ payments_cache' =
                 [payments_cache EXCEPT
                    ![payment_id] = Submitted(@, NewTxHash)]
            /\ tx_hash_to_payment' = Put(tx_hash_to_payment, NewTxHash, payment_id)
            /\ Returns("send_payment_transaction", payment_id)
       ELSE /\ payments_cache' =
                 [payments_cache EXCEPT ![payment_id] = SendFailed(@)]
            /\ Raises("send_payment_transaction", "Exception")
            /\ UNCHANGED <<tx_hash_to_payment, uuid_hashes>>
  /\ UNCHANGED <<settings, uuid_payments, now>>
  /\ UNCHANGED price_vars

\* ------------------------------------------------------ blockchain gateway
\* What the RPC node answers to one get_transaction_status call: no receipt
\* (None), a receipt with its status and block number together with the
\* current block number (None: reading it raises), or an exception.
ReceiptBlocks ==
  {[blockNumber |-> 1, current |-> None],
   [blockNumber |-> 1, current |-> MaxBlock],
   [blockNumber |-> MaxBlock, current |-> 1]}

GatewayAnswers ==
  {[kind |-> "none", status |-> 0, blockNumber |-> None, current |-> None],
   [kind |-> "raise", status |-> 0, blockNumber |-> None, current |-> None]}
  \cup {[kind |-> "receipt", status |-> st, blockNumber |-> b.blockNumber,
         current |-> b.current] : st \in {0, 1}, b \in ReceiptBlocks}

\* the gateway is asked only when the call reaches line 219 with a record
\* that has a transaction hash; otherwise there is no answer to draw
NoAnswer == [kind |-> "none", status |-> 0, blockNumber |-> None, current |-> None]

AnswersFor(payment_id) ==
  IF payment_id # None /\ payments_cache[payment_id].tx_hash # None
    THEN GatewayAnswers
    ELSE {NoAnswer}

Max(a, b) == IF a >= b THEN a ELSE b

\* _get_confirmations without the clamp max(0, ...)
_get_confirmations_unclamped(block_number, current_block) ==
  IF current_block = None THEN 0
  ELSE current_block - block_number

\* BlockchainService._get_confirmations
_get_confirmations(block_number, current_block) ==
  IF current_block = None THEN 0
  ELSE Max(0, current_block - block_number)

\* BlockchainService.get_transaction_status; a key the returned dict does not
\* have reads as None through dict.get
get_transaction_status(ans) ==
  IF ans.kind = "raise"
    THEN [status |-> "error", confirmations |-> 0, block_number |-> None]
  ELSE IF ans.kind = "none"
    THEN [status |-> "pending", confirmations |-> 0, block_number |-> None]
  ELSE [status |-> IF ans.status = 1 THEN "success" ELSE "failed",
        confirmations |-> _get_confirmations(ans.blockNumber, ans.current),
        block_number |-> ans.blockNumber]

\* ------------------------------------------------------ get_payment_status
\* an update that copies the counts and leaves the status
Refreshed_keeps_status(payment, tx_status) ==
  [payment EXCEPT !.confirmations = tx_status.confirmations,
                  !.block_number = tx_status.block_number]

\* lines 224-226
Refreshed(payment, tx_status) ==
  [payment EXCEPT !.status = tx_status.status,
                  !.confirmations = tx_status.confirmations,
                  !.block_number = tx_status.block_number]

\* the attribute read settings.MIN_CONFIRMATIONS of line 229: config.py
\* declares no such field, so the read raises AttributeError
HasMinConfirmations == "MIN_CONFIRMATIONS" \in DOMAIN settings

\* lines 229-231
Completed(payment) ==
  IF payment.confirmations >= settings.MIN_CONFIRMATIONS
    THEN [payment EXCEPT !.status = "success", !.completed_at = now]
    ELSE payment

\* lines 218-235 for a record that was found
QueryChain(method, payment_id, ans) ==
  LET payment == payments_cache[payment_id]
  IN IF payment.tx_hash = None
       THEN /\ Returns(method, payment_id)
            /\ UNCHANGED <<payments_cache, now>>
       ELSE LET refreshed == Refreshed(payment, get_transaction_status(ans))
            IN IF HasMinConfirmations
                 THEN /\ payments_cache' =
                           [payments_cache EXCEPT ![payment_id] = Completed(refreshed)]
                      /\ now' = IF Completed(refreshed) = refreshed THEN now ELSE now + 1
                      /\ Returns(method, payment_id)
                 ELSE /\ payments_cache' =
                           [payments_cache EXCEPT ![payment_id] = refreshed]
                      /\ now' = now
                      /\ Raises(method, "AttributeError")

\* lines 203-213: the payment id the call resolves to, None when it raises
Resolve(payment_id, tx_hash) ==
  IF payment_id # None
    THEN IF Has(payments_cache, payment_id) THEN payment_id ELSE None
  ELSE IF tx_hash # None
    THEN IF Has(tx_hash_to_payment, tx_hash) THEN tx_hash_to_payment[tx_hash] ELSE None
  ELSE None

get_payment_status(payment_id, tx_hash, ans) ==
  /\ IF Resolve(payment_id, tx_hash) = None
       THEN /\ Raises("get_payment_status", "ValueError")
            /\ UNCHANGED <<payments_cache, now>>
       ELSE QueryChain("get_payment_status", Resolve(payment_id, tx_hash), ans)
  /\ UNCHANGED <<settings, tx_hash_to_payment, uuid_payments, uuid_hashes, in_flight>>
  /\ UNCHANGED price_vars

refresh_payment_status(payment_id, ans) ==
  /\ IF ~Has(payments_cache, payment_id)
       THEN /\ Raises("refresh_payment_status", "ValueError")
            /\ UNCHANGED <<payments_cache, now>>
       ELSE QueryChain("refresh_payment_status", payment_id, ans)
  /\ UNCHANGED <<settings, tx_hash_to_payment, uuid_payments, uuid_hashes, in_flight>>
  /\ UNCHANGED price_vars

\* ---------------------------------------------------------- cancel_payment
\* a cancel that also accepts a payment already sent
Cancellable_after_send == {"pending", "failed", "submitted"}

\* line 368
Cancellable == {"pending", "failed"}

cancel_payment(payment_id) ==
  /\ IF ~Has(payments_cache, payment_id)
       THEN /\ Raises("cancel_payment", "ValueError")
            /\ UNCHANGED payments_cache
     ELSE IF payments_cache[payment_id].status \notin Cancellable
       THEN /\ Raises("cancel_payment", "ValueError")
            /\ UNCHANGED payments_cache
     ELSE /\ payments_cache' =
               [payments_cache EXCEPT ![payment_id].status = "cancelled"]
          /\ Returns("cancel_payment", payment_id)
  /\ UNCHANGED <<settings, tx_hash_to_payment, uuid_payments, uuid_hashes, now,
                 in_flight>>
  /\ UNCHANGED price_vars

\* -------------------------------------------------- get_payments_by_status
\* line 301
valid_statuses == {"pending", "submitted", "success", "failed"}

\* payments_cache.values(): a dict keeps insertion order, which is the order
\* of the identifiers
Values == [i \in 1..Cardinality(DOMAIN payments_cache) |-> i]

\* lines 305-307
Filtered(status) ==
  LET Matches(payment_id) == payments_cache[payment_id].status = status
  IN SelectSeq(Values, Matches)

get_payments_by_status(status) ==
  /\ IF status \notin valid_statuses
       THEN Raises("get_payments_by_status", "ValueError")
       ELSE Returns("get_payments_by_status", Filtered(status))
  /\ UNCHANGED <<settings, payments_cache, tx_hash_to_payment, uuid_payments,
                 uuid_hashes, now, in_flight>>
  /\ UNCHANGED price_vars

\* the statuses the callers ask for: the four of line 301, the one
\* cancel_payment stores, and the one the tests ask for
StatusArgs ==
  {"pending", "submitted", "success", "failed", "cancelled", "completed"}

PaymentIdArgs == {None} \cup 1..MaxPayments
TxHashArgs == {None} \cup 1..MaxHashes

Next ==
  \/ \E req \in CreateRequests :
       \E answer \in (IF CreateRejects(req) THEN {"true"} ELSE TokenAnswers) :
         create_payment(req, answer)
  \/ \E payment_id \in 1..MaxPayments : send_begin(payment_id)
  \/ \E payment_id \in 1..MaxPayments, outcome \in SendOutcomes :
       send_finish(payment_id, outcome)
  \/ \E payment_id \in PaymentIdArgs, tx_hash \in TxHashArgs :
       \E ans \in AnswersFor(Resolve(payment_id, tx_hash)) :
         get_payment_status(payment_id, tx_hash, ans)
  \/ \E payment_id \in 1..MaxPayments :
       \E ans \in AnswersFor(Resolve(payment_id, None)) :
         refresh_payment_status(payment_id, ans)
  \/ \E payment_id \in 1..MaxPayments : cancel_payment(payment_id)
  \/ \E status \in StatusArgs : get_payments_by_status(status)

Spec == Init /\ [][Next]_vars

\* ============================================================= price cache
\* DeFiLlamaService.  Prices are counted in hundredths of a dollar.  The quote
\* fields that no step reads back (market_cap, change_24h, chains,
\* last_updated) are left out of the quotes.

\* ------------------------------------------------- JSON values of the body
JNum(n) == [type |-> "number", number |-> n]
JStr(chars) == [type |-> "str", chars |-> chars]
JList(items) == [type |-> "list", items |-> items]
\* a dict is the function from its keys to its values
JDict(entries) == [type |-> "dict", entries |-> entries]
\* the dict of the chain balances is the sequence of its values, in the order
\* .values() gives them
JChains(values) == [type |-> "dict", values |-> values]
\* null, None after response.json()
JNull == [type |-> "null"]

\* isinstance(price, (int, float)) and price > 0
IsPositiveNumber(v) == v.type = "number" /\ v.number > 0

\* lines 231-235: the first positive price of the chain balances, None if
\* there is none
RECURSIVE FirstChainPrice(_)
FirstChainPrice(values) ==
  IF Len(values) = 0 THEN None
  ELSE LET chain_data == Head(values)
       IN IF /\ chain_data.type = "dict"
             /\ "price" \in DOMAIN chain_data.entries
             /\ IsPositiveNumber(chain_data.entries.price)
            THEN chain_data.entries.price.number
            ELSE FirstChainPrice(Tail(values))

\* DeFiLlamaService._extract_price: an exception inside it (.values() of a
\* value that is no dict, "in" on a number or on None) is answered None
_extract_price(item) ==
  LET e == item.entries
  IN IF "price" \in DOMAIN e /\ IsPositiveNumber(e.price)
       THEN e.price.number
     ELSE IF "chainBalances" \in DOMAIN e /\ e.chainBalances.type # "dict"
       THEN None
     ELSE IF /\ "chainBalances" \in DOMAIN e
             /\ FirstChainPrice(e.chainBalances.values) # None
       THEN FirstChainPrice(e.chainBalances.values)
     ELSE IF "marketData" \in DOMAIN e /\ e.marketData.type \in {"number", "null"}
       THEN None
     ELSE IF /\ "marketData" \in DOMAIN e
             /\ e.marketData.type = "dict"
             /\ "priceUSD" \in DOMAIN e.marketData.entries
             /\ IsPositiveNumber(e.marketData.entries.priceUSD)
       THEN e.marketData.entries.priceUSD.number
     ELSE IF "price_usd" \in DOMAIN e /\ IsPositiveNumber(e.price_usd)
       THEN e.price_usd.number
     ELSE None

\* lines 150-164: the body has none of the expected shapes
UnexpectedShape(data) ==
  IF data.type = "dict"
    THEN /\ "stablecoins" \in DOMAIN data.entries
         /\ data.entries.stablecoins.type # "list"
    ELSE data.type # "list"

\* lines 150-160: stablecoins_data
StablecoinsData(data) ==
  IF data.type = "list" THEN data.items
  ELSE IF "stablecoins" \in DOMAIN data.entries THEN data.entries.stablecoins.items
  ELSE << >>

\* lines 168-202, one item: the quote it adds to result, if any
ParseItem(item) ==
  IF item.type # "dict" THEN << >>
  ELSE LET e == item.entries
           raw == IF "symbol" \in DOMAIN e THEN e.symbol ELSE JStr(<< >>)
       IN IF raw.type # "str" THEN << >>
          ELSE LET symbol == Upper(raw.chars)
                   name == IF "name" \in DOMAIN e /\ e.name.type = "str"
                             THEN e.name.chars ELSE << >>
                   price_usd == _extract_price(item)
               IN IF symbol \notin settings.STABLECOINS THEN << >>
                  ELSE IF price_usd # None /\ price_usd > 0
                    THEN <<[name |-> IF name # << >> THEN name ELSE symbol,
                            symbol |-> symbol,
                            price_usd |-> price_usd]>>
                  ELSE << >>

RECURSIVE ParseItems(_)
ParseItems(items) ==
  IF Len(items) = 0 THEN << >>
  ELSE ParseItem(Head(items)) \o ParseItems(Tail(items))

\* DeFiLlamaService._parse_stablecoins
_parse_stablecoins(data) ==
  IF UnexpectedShape(data) THEN << >>
  ELSE ParseItems(StablecoinsData(data))

\* ------------------------------------------------------- upstream answers
ItemUSDC == JDict([symbol |-> JStr(USDC), price |-> JNum(100)])
ItemTether ==
  JDict([symbol |-> JStr(<<"u", "s", "d", "t">>),
         name |-> JStr(<<"T", "e", "t", "h", "e", "r">>),
         price_usd |-> JNum(99)])
ItemBUSD == JDict([symbol |-> JStr(<<"B", "U", "S", "D">>), price |-> JNum(100)])
ItemDAI ==
  JDict([symbol |-> JStr(DAI),
         chainBalances |-> JChains(<<JDict([mcap |-> JNum(5)]),
                                     JDict([price |-> JNum(101)])>>)])
ItemUnpriced ==
  JDict([symbol |-> JStr(USDC), price |-> JNum(0),
         marketData |-> JDict([priceUSD |-> JStr(<<"1">>)])])
\* a second entry of a symbol that is already listed
ItemUSDCAgain ==
  JDict([symbol |-> JStr(<<"u", "s", "d", "c">>), price_usd |-> JNum(99)])
\* an entry whose market data is null and whose price_usd is set
ItemNullMarket ==
  JDict([symbol |-> JStr(USDT), marketData |-> JNull, price_usd |-> JNum(100)])

\* what client.get, raise_for_status and response.json give one call: a
\* timeout, an HTTP error, a body that is no JSON, or the parsed body
Bodies ==
  {JList(<<ItemUSDC>>),
   JList(<<ItemUSDC, ItemUSDCAgain>>),
   JList(<<ItemNullMarket, ItemDAI>>),
   JDict([stablecoins |-> JList(<<ItemTether, ItemBUSD, ItemDAI, ItemUnpriced>>)]),
   JDict([stablecoins |-> JStr(<<"o", "o", "p", "s">>)]),
   JStr(<<"o", "o", "p", "s">>),
   JNum(42)}

UpstreamAnswers ==
  {[kind |-> "timeout", data |-> JNum(0)],
   [kind |-> "http_error", data |-> JNum(0)],
   [kind |-> "invalid_json", data |-> JNum(0)]}
  \cup {[kind |-> "body", data |-> b] : b \in Bodies}

\* DeFiLlamaService._fetch_from_api raises: the request or the decoding of
\* the body raised, or len(data) of line 100 raises TypeError on a number
FetchRaises(answer) ==
  \/ answer.kind \in {"timeout", "http_error", "invalid_json"}
  \/ answer.data.type = "number"

\* ---------------------------------------------------------------- actions
\* time.time() and datetime.utcnow() advance
Tick ==
  /\ time < MaxTime
  /\ time' = time + 1
  /\ UNCHANGED <<settings, cache, cache_timestamp, fetching, called, raised,
                 returned>>
  /\ UNCHANGED payment_vars

\* a snapshot that never expires
_is_cache_valid_ignores_ttl ==
  IF cache = << >> \/ cache_timestamp = None THEN FALSE
  ELSE TRUE

\* DeFiLlamaService._is_cache_valid; cache_ttl is settings.CACHE_TTL
_is_cache_valid ==
  IF cache = << >> \/ cache_timestamp = None THEN FALSE
  ELSE time - cache_timestamp < settings.CACHE_TTL

\* self.cache.get("stablecoins", [])
CachedStablecoins ==
  IF "stablecoins" \in DOMAIN cache THEN cache.stablecoins ELSE << >>

\* a call suspended in client.get: the method the caller invoked and its
\* symbol argument (none for get_stablecoin_prices)
Suspended(method, symbol) == [method |-> method, symbol |-> symbol]

\* get_stablecoin_prices up to its suspension in client.get (lines 53-62,
\* 92-96); a cache hit completes the call
get_stablecoin_prices ==
  /\ IF _is_cache_valid
       THEN /\ Returns("get_stablecoin_prices", CachedStablecoins)
            /\ UNCHANGED fetching
       ELSE /\ Len(fetching) < MaxFetching
            /\ fetching' = Append(fetching, Suspended("get_stablecoin_prices", << >>))
            /\ UNCHANGED <<called, raised, returned>>
  /\ UNCHANGED <<settings, cache, cache_timestamp, time>>
  /\ UNCHANGED payment_vars

\* a handler that answers every failure with an empty list
Fallback_always_empty == << >>

\* lines 74-80: what the call returns after an exception
Fallback ==
  IF cache # << >> /\ "stablecoins" \in DOMAIN cache
    THEN CachedStablecoins
    ELSE << >>

\* an update that stores the quotes and leaves the timestamp
_update_cache_keeps_timestamp(stablecoins) ==
  /\ cache' = [stablecoins |-> stablecoins, last_updated |-> time]
  /\ UNCHANGED cache_timestamp

\* DeFiLlamaService._update_cache
_update_cache(stablecoins) ==
  /\ cache' = [stablecoins |-> stablecoins, last_updated |-> time]
  /\ cache_timestamp' = time

\* a resume that stores an empty snapshot when the fetch raised
get_stablecoin_prices_resume_caches_failure(i, answer) ==
  /\ i \in DOMAIN fetching
  /\ fetching[i].method = "get_stablecoin_prices"
  /\ fetching' = SubSeq(fetching, 1, i - 1) \o SubSeq(fetching, i + 1, Len(fetching))
  /\ IF FetchRaises(answer)
       THEN /\ _update_cache(<< >>)
            /\ Returns("get_stablecoin_prices", Fallback)
       ELSE LET stablecoins == _parse_stablecoins(answer.data)
            IN /\ _update_cache(stablecoins)
               /\ Returns("get_stablecoin_prices", stablecoins)
  /\ UNCHANGED <<settings, time>>
  /\ UNCHANGED payment_vars

\* get_stablecoin_prices after the suspension (lines 97-106, 65-80), for the
\* i-th of the suspended calls
get_stablecoin_prices_resume(i, answer) ==
  /\ i \in DOMAIN fetching
  /\ fetching[i].method = "get_stablecoin_prices"
  /\ fetching' = SubSeq(fetching, 1, i - 1) \o SubSeq(fetching, i + 1, Len(fetching))
  /\ IF FetchRaises(answer)
       THEN /\ Returns("get_stablecoin_prices", Fallback)
            /\ UNCHANGED <<cache, cache_timestamp>>
       ELSE LET stablecoins == _parse_stablecoins(answer.data)
            IN /\ _update_cache(stablecoins)
               /\ Returns("get_stablecoin_prices", stablecoins)
  /\ UNCHANGED <<settings, time>>
  /\ UNCHANGED payment_vars

\* a clear that empties the dict and leaves the timestamp
clear_cache_keeps_timestamp ==
  /\ cache' = << >>
  /\ UNCHANGED cache_timestamp
  /\ Returns("clear_cache", None)
  /\ UNCHANGED <<settings, time, fetching>>
  /\ UNCHANGED payment_vars

\* DeFiLlamaService.clear_cache
clear_cache ==
  /\ cache' = << >>
  /\ cache_timestamp' = None
  /\ Returns("clear_cache", None)
  /\ UNCHANGED <<settings, time, fetching>>
  /\ UNCHANGED payment_vars

\* DeFiLlamaService.get_cache_info
get_cache_info ==
  /\ IF cache_timestamp = None \/ cache_timestamp = 0
       THEN Returns("get_cache_info",
                    [is_valid |-> FALSE, last_updated |-> None,
                     age_seconds |-> None, ttl_seconds |-> settings.CACHE_TTL,
                     entries |-> 0])
       ELSE Returns("get_cache_info",
                    [is_valid |-> time - cache_timestamp < settings.CACHE_TTL,
                     last_updated |-> IF "last_updated" \in DOMAIN cache
                                        THEN cache.last_updated ELSE None,
                     age_seconds |-> time - cache_timestamp,
                     ttl_seconds |-> settings.CACHE_TTL,
                     entries |-> Len(CachedStablecoins)])
  /\ UNCHANGED <<settings, cache, cache_timestamp, time, fetching>>
  /\ UNCHANGED payment_vars

\* lines 491-496: the first quote of prices with the symbol, or None.  The
\* Optional[Dict] is a sequence: the quote alone, or empty for None.
RECURSIVE FindQuote(_, _)
FindQuote(prices, symbol) ==
  IF Len(prices) = 0 THEN << >>
  ELSE IF Upper(Head(prices).symbol) = Upper(symbol) THEN <<Head(prices)>>
  ELSE FindQuote(Tail(prices), symbol)

\* a lookup that takes every symbol to the price list
get_specific_stablecoin_unvalidated(symbol) ==
  /\ IF _is_cache_valid
       THEN /\ Returns("get_specific_stablecoin",
                       FindQuote(CachedStablecoins, symbol))
            /\ UNCHANGED fetching
       ELSE /\ Len(fetching) < MaxFetching
            /\ fetching' = Append(fetching,
                                  Suspended("get_specific_stablecoin", symbol))
            /\ UNCHANGED <<called, raised, returned>>
  /\ UNCHANGED <<settings, cache, cache_timestamp, time>>
  /\ UNCHANGED payment_vars

\* DeFiLlamaService.get_specific_stablecoin up to the suspension of its
\* get_stablecoin_prices call in client.get (lines 481-488, 53-62); an invalid
\* symbol or a cache hit completes the call
get_specific_stablecoin(symbol) ==
  /\ IF ~is_valid_stablecoin(symbol)
       THEN /\ Raises("get_specific_stablecoin", "ValueError")
            /\ UNCHANGED fetching
       ELSE IF _is_cache_valid
       THEN /\ Returns("get_specific_stablecoin",
                       FindQuote(CachedStablecoins, symbol))
            /\ UNCHANGED fetching
       ELSE /\ Len(fetching) < MaxFetching
            /\ fetching' = Append(fetching,
                                  Suspended("get_specific_stablecoin", symbol))
            /\ UNCHANGED <<called, raised, returned>>
  /\ UNCHANGED <<settings, cache, cache_timestamp, time>>
  /\ UNCHANGED payment_vars

\* get_specific_stablecoin after the suspension (lines 97-106, 65-80,
\* 488-496), for the i-th of the suspended calls
get_specific_stablecoin_resume(i, answer) ==
  /\ i \in DOMAIN fetching
  /\ fetching[i].method = "get_specific_stablecoin"
  /\ fetching' = SubSeq(fetching, 1, i - 1) \o SubSeq(fetching, i + 1, Len(fetching))
  /\ IF FetchRaises(answer)
       THEN /\ Returns("get_specific_stablecoin",
                       FindQuote(Fallback, fetching[i].symbol))
            /\ UNCHANGED <<cache, cache_timestamp>>
       ELSE LET stablecoins == _parse_stablecoins(answer.data)
            IN /\ _update_cache(stablecoins)
               /\ Returns("get_specific_stablecoin",
                          FindQuote(stablecoins, fetching[i].symbol))
  /\ UNCHANGED <<settings, time>>
  /\ UNCHANGED payment_vars

\* the symbols callers ask for
SymbolArgs == {<<"u", "s", "d", "c">>, DAI, <<"B", "U", "S", "D">>}

PriceNext ==
  \/ Tick
  \/ get_stablecoin_prices
  \/ \E i \in 1..MaxFetching, answer \in UpstreamAnswers :
       get_stablecoin_prices_resume(i, answer)
  \/ \E symbol \in SymbolArgs : get_specific_stablecoin(symbol)
  \/ \E i \in 1..MaxFetching, answer \in UpstreamAnswers :
       get_specific_stablecoin_resume(i, answer)
  \/ clear_cache
  \/ get_cache_info

PriceSpec == Init /\ [][PriceNext]_vars

\* ================================================================== claims
Payments == DOMAIN payments_cache

\* the statuses of the state machine
Statuses == {"pending", "submitted", "success", "failed", "cancelled"}

Terminal == {"success", "failed", "cancelled"}

\* utils/constants.py: the confirmations a transaction needs
REQUIRED_CONFIRMATIONS == 12

RaiseAnswer ==
  [kind |-> "raise", status |-> 0, blockNumber |-> None, current |-> None]

\* C1: the status of a record never moves backward: a submitted record never
\* returns to pending, and a success or cancelled record never becomes
\* pending or submitted, whatever calls are made and however they interleave.
C1_StatusNeverMovesBackward ==
  [][\A p \in Payments :
       LET before == payments_cache[p].status
           after == payments_cache'[p].status
       IN /\ before = "submitted" => after # "pending"
          /\ before \in {"success", "cancelled"} => after \notin {"pending", "submitted"}]_vars

\* C2: a record becomes success only in a status query whose gateway answer
\* is a success receipt with at least the required confirmations.
C2_SuccessOnlyWhenConfirmed ==
  [][\A p \in Payments :
       (payments_cache[p].status # "success" /\ payments_cache'[p].status = "success")
         => \E ans \in GatewayAnswers :
              /\ \/ get_payment_status(p, None, ans)
                 \/ refresh_payment_status(p, ans)
                 \/ \E h \in 1..MaxHashes : get_payment_status(None, h, ans)
              /\ get_transaction_status(ans).status = "success"
              /\ get_transaction_status(ans).confirmations >= REQUIRED_CONFIRMATIONS]_vars

\* C3: in every reachable state a record has completed_at set if and only if
\* its status is success, failed or cancelled.
C3_CompletedIffTerminal ==
  \A p \in Payments :
    (payments_cache[p].completed_at # None) <=> (payments_cache[p].status \in Terminal)

\* C4: a transaction hash, once set on a record, is never changed.
C4_HashNeverChanges ==
  [][\A p \in Payments :
       payments_cache[p].tx_hash # None
         => payments_cache'[p].tx_hash = payments_cache[p].tx_hash]_vars

\* C5: cancel_payment on a stored record returns and sets the status to
\* cancelled when the status is pending or failed; for every other status it
\* raises ValueError and leaves every record as it was.
C5_CancelOnlyPendingOrFailed ==
  [][\A p \in Payments :
       (called' = "cancel_payment" /\ cancel_payment(p)) =>
         IF payments_cache[p].status \in {"pending", "failed"}
           THEN /\ raised' = "None"
                /\ payments_cache' =
                     [payments_cache EXCEPT ![p].status = "cancelled"]
           ELSE /\ raised' = "ValueError"
                /\ payments_cache' = payments_cache]_vars

\* C5 witness: with every payment id in use, a cancel was refused while one
\* record is submitted and another was cancelled.
C5_Witness ==
  /\ called = "cancel_payment"
  /\ raised = "ValueError"
  /\ Cardinality(Payments) = MaxPayments
  /\ \E p, q \in Payments :
       /\ payments_cache[p].status = "submitted"
       /\ payments_cache[q].status = "cancelled"

\* C6: a status query of a record with a transaction hash whose gateway
\* lookup fails returns without an exception and leaves the record (status,
\* confirmations, block number) as it was.
C6_GatewayFailureKeepsRecord ==
  [][\A p \in Payments :
       (/\ called' = "get_payment_status"
        /\ payments_cache[p].tx_hash # None
        /\ get_payment_status(p, None, RaiseAnswer))
         => /\ raised' = "None"
            /\ payments_cache'[p] = payments_cache[p]]_vars

\* C7: in every reachable state the status of every record is one of
\* pending, submitted, success, failed, cancelled.
C7_StatusInStateMachine ==
  \A p \in Payments : payments_cache[p].status \in Statuses

C9_PaymentIdsUnique ==
  [][(/\ called' = "create_payment"
      /\ raised' = "None"
      /\ \E req \in CreateRequests : create_payment(req, "true"))
       => /\ Cardinality(DOMAIN payments_cache') = Cardinality(Payments) + 1
          /\ \A p \in Payments : payments_cache'[p] = payments_cache[p]
          /\ \A p, q \in DOMAIN payments_cache' :
               payments_cache'[p].payment_id = payments_cache'[q].payment_id
                 => p = q]_vars

\* C9 witness: a second create_payment returned.
C9_Witness ==
  /\ called = "create_payment"
  /\ raised = "None"
  /\ Cardinality(Payments) = 2

\* C10: a create_payment call that raises leaves the payment map and the
\* hash index exactly as they were.
C10_FailedCreateChangesNothing ==
  [][(/\ called' = "create_payment"
      /\ raised' # "None"
      /\ \E req \in CreateRequests, answer \in TokenAnswers :
           create_payment(req, answer))
       => /\ payments_cache' = payments_cache
          /\ tx_hash_to_payment' = tx_hash_to_payment]_vars

\* C10 witness: a create_payment was refused while both maps hold entries.
C10_Witness ==
  /\ called = "create_payment"
  /\ raised = "ValueError"
  /\ Payments # {}
  /\ DOMAIN tx_hash_to_payment # {}

\* C11: a send_payment_transaction that returns with hash h leaves the record
\* with tx_hash h and status submitted and the index entry h -> payment_id;
\* and after every step the lookup of get_payment_status by a hash of the
\* index finds the record that its lookup by that payment_id finds.
C11_SendIndexesRecord ==
  [][/\ (called' = "send_payment_transaction" /\ raised' = "None") =>
          \A p \in Payments :
            send_finish(p, "hash") =>
              /\ returned' = p
              /\ payments_cache'[p].tx_hash = NewTxHash
              /\ payments_cache'[p].status = "submitted"
              /\ Has(tx_hash_to_payment', NewTxHash)
              /\ tx_hash_to_payment'[NewTxHash] = p
     /\ (\A h \in DOMAIN tx_hash_to_payment :
           /\ Resolve(None, h) # None
           /\ Resolve(None, h) = Resolve(tx_hash_to_payment[h], None))']_vars

\* C11 witness: a send returned, and the record it returned is submitted
\* under the newest hash, which the index maps back to it.
C11_Witness ==
  /\ called = "send_payment_transaction"
  /\ raised = "None"
  /\ uuid_hashes > 0
  /\ payments_cache[returned].tx_hash = uuid_hashes
  /\ payments_cache[returned].status = "submitted"
  /\ tx_hash_to_payment[uuid_hashes] = returned

\* C12: when the submission inside send_payment_transaction raises, the call
\* raises, the record is failed with an error text, its tx_hash and the hash
\* index are as before the call, and the call ends its one submission without
\* starting another (no hash is generated, one suspended call fewer).
C12_SendFailureMarksFailed ==
  [][called' = "send_payment_transaction" =>
       \A p \in Payments :
         send_finish(p, "raise") =>
           /\ raised' # "None"
           /\ payments_cache'[p].status = "failed"
           /\ payments_cache'[p].error # "None"
           /\ payments_cache'[p].tx_hash = payments_cache[p].tx_hash
           /\ tx_hash_to_payment' = tx_hash_to_payment
           /\ uuid_hashes' = uuid_hashes
           /\ in_flight'[p] = in_flight[p] - 1
           /\ \A q \in Payments \ {p} : in_flight'[q] = in_flight[q]]_vars

\* C12 witness: a send raised on a record that an earlier send had given a
\* hash; the record is failed, with its error, and keeps that hash.
C12_Witness ==
  /\ called = "send_payment_transaction"
  /\ raised = "Exception"
  /\ \E p \in Payments :
       /\ payments_cache[p].status = "failed"
       /\ payments_cache[p].error # "None"
       /\ payments_cache[p].tx_hash # None
       /\ in_flight[p] = 0

\* C13: get_payment_status raises ValueError and changes no record when it
\* is given neither a payment_id nor a tx_hash, and also when it is given
\* both.
C13_ExactlyOneKey ==
  [][called' = "get_payment_status" =>
       \A p \in PaymentIdArgs, h \in TxHashArgs :
         ((p = None) <=> (h = None)) =>
           \A ans \in GatewayAnswers :
             get_payment_status(p, h, ans) =>
               /\ raised' = "ValueError"
               /\ payments_cache' = payments_cache]_vars

\* C14: get_payments_by_status raises for a status that is not one of
\* pending, submitted, success, failed, cancelled, and for each of these five
\* returns exactly the stored records with that status and changes none.
C14_ByStatusReturnsMatching ==
  [][called' = "get_payments_by_status" =>
       \A s \in StatusArgs :
         get_payments_by_status(s) =>
           IF s \in Statuses
             THEN /\ raised' = "None"
                  /\ {returned'[i] : i \in DOMAIN returned'}
                       = {p \in Payments : payments_cache[p].status = s}
                  /\ Len(returned')
                       = Cardinality({p \in Payments : payments_cache[p].status = s})
                  /\ payments_cache' = payments_cache
             ELSE raised' = "ValueError"]_vars

\* C15: the record a create_payment stores carries the recipient, amount and
\* stablecoin of the call, no step changes these three fields, and
\* get_payment_status by payment_id on a record without tx_hash returns that
\* record, whatever the gateway would answer, and changes nothing at all.
C15_ReadBeforeSend ==
  [][/\ (called' = "create_payment" /\ raised' = "None") =>
          \A req \in CreateRequests :
            create_payment(req, "true") =>
              /\ payments_cache'[returned'].recipient = req.recipient_address
              /\ payments_cache'[returned'].amount = req.amount
              /\ payments_cache'[returned'].stablecoin = req.stablecoin
     /\ \A p \in Payments :
          /\ payments_cache'[p].recipient = payments_cache[p].recipient
          /\ payments_cache'[p].amount = payments_cache[p].amount
          /\ payments_cache'[p].stablecoin = payments_cache[p].stablecoin
     /\ called' = "get_payment_status" =>
          \A p \in Payments :
            (payments_cache[p].tx_hash = None /\ get_payment_status(p, None, NoAnswer))
              => /\ raised' = "None"
                 /\ returned' = p
                 /\ UNCHANGED <<settings, payment_vars, price_vars>>
                 /\ \A ans \in GatewayAnswers : get_payment_status(p, None, ans)]_vars

\* C15 witness: a status query returned a record that was never sent, with
\* the symbol in the spelling create_payment was given, while another record
\* has been sent.
C15_Witness ==
  /\ called = "get_payment_status"
  /\ raised = "None"
  /\ payments_cache[returned].tx_hash = None
  /\ payments_cache[returned].stablecoin = <<"u", "s", "d", "c">>
  /\ \E q \in Payments : payments_cache[q].tx_hash # None

\* ------------------------------------------------------------ price cache
\* the call started an upstream request
CallsUpstream ==
  fetching' = Append(fetching, Suspended("get_stablecoin_prices", << >>))

\* C16: a get_stablecoin_prices call makes an upstream call if and only if
\* there is no snapshot or the snapshot is at least CACHE_TTL old; a call that
\* makes none returns the quotes of the snapshot and leaves the snapshot and
\* its timestamp as they were.
C16_UpstreamIffStale ==
  [][get_stablecoin_prices =>
       /\ CallsUpstream <=>
            (cache = << >> \/ time - cache_timestamp >= settings.CACHE_TTL)
       /\ ~CallsUpstream =>
            /\ fetching' = fetching
            /\ called' = "get_stablecoin_prices"
            /\ raised' = "None"
            /\ returned' = cache.stablecoins
            /\ cache' = cache
            /\ cache_timestamp' = cache_timestamp]_vars

\* C16 witness: a call returned the quotes of a snapshot that is older than
\* the current tick and younger than CACHE_TTL, with no request in flight.
C16_Witness ==
  /\ called = "get_stablecoin_prices"
  /\ raised = "None"
  /\ cache # << >>
  /\ returned = cache.stablecoins
  /\ returned # << >>
  /\ time > cache_timestamp
  /\ time - cache_timestamp < settings.CACHE_TTL
  /\ fetching = << >>

\* C17: when the fetch of a call raises and a snapshot exists, the call
\* returns the quotes of that snapshot without raising and leaves the
\* snapshot and its timestamp as they were; and the timestamp takes a new
\* value only when a fetch that did not raise completes, the time of that
\* completion.
C17_StaleFallback ==
  [][/\ called' = "get_stablecoin_prices" =>
          \A i \in DOMAIN fetching, answer \in UpstreamAnswers :
            (/\ FetchRaises(answer)
             /\ cache # << >>
             /\ get_stablecoin_prices_resume(i, answer))
              => /\ raised' = "None"
                 /\ returned' = cache.stablecoins
                 /\ cache' = cache
                 /\ cache_timestamp' = cache_timestamp
     /\ (cache_timestamp' # cache_timestamp /\ cache_timestamp' # None) =>
          /\ cache_timestamp' = time
          /\ \E i \in DOMAIN fetching, answer \in UpstreamAnswers :
               /\ ~FetchRaises(answer)
               /\ \/ get_stablecoin_prices_resume(i, answer)
                  \/ get_specific_stablecoin_resume(i, answer)]_vars

\* C17 witness: a call returned the quotes of an expired snapshot, which is
\* still in place with its old timestamp.
C17_Witness ==
  /\ called = "get_stablecoin_prices"
  /\ raised = "None"
  /\ cache # << >>
  /\ returned = cache.stablecoins
  /\ returned # << >>
  /\ time - cache_timestamp >= settings.CACHE_TTL

Malformed(answer) == answer.kind = "body" /\ UnexpectedShape(answer.data)

\* C19: when the body of the answer is malformed and a snapshot exists, the
\* call returns the quotes of that snapshot and the snapshot is not replaced.
C19_MalformedBodyIsFailure ==
  [][called' = "get_stablecoin_prices" =>
       \A i \in DOMAIN fetching, answer \in UpstreamAnswers :
         (/\ Malformed(answer)
          /\ cache # << >>
          /\ get_stablecoin_prices_resume(i, answer))
           => /\ returned' = cache.stablecoins
              /\ cache' = cache
              /\ cache_timestamp' = cache_timestamp]_vars

FetchResults ==
  {_parse_stablecoins(answer.data) :
     answer \in {a \in UpstreamAnswers : ~FetchRaises(a)}}

\* C21: in every reachable state the cache holds either nothing (empty dict,
\* no timestamp) or one whole snapshot: the quote list of a single fetch,
\* together with the timestamp and the last_updated of the update that
\* stored it, both no later than the clock.
C21_SnapshotWhole ==
  /\ (cache = << >>) <=> (cache_timestamp = None)
  /\ cache # << >> =>
       /\ DOMAIN cache = {"stablecoins", "last_updated"}
       /\ cache.stablecoins \in FetchResults
       /\ cache.last_updated = cache_timestamp
       /\ cache_timestamp <= time

\* C21 witness: a snapshot that replaced an earlier one is in place while
\* another fetch is in flight and get_cache_info completed.
C21_Witness ==
  /\ cache # << >>
  /\ cache_timestamp > 1
  /\ Len(cache.stablecoins) > 1
  /\ Len(fetching) > 0
  /\ called = "get_cache_info"

\* the symbols of a quote list, one element per quote
RECURSIVE Symbols(_)
Symbols(quotes) ==
  IF Len(quotes) = 0 THEN << >>
  ELSE <<Head(quotes).symbol>> \o Symbols(Tail(quotes))

\* C22: the quote list a fetch stores and the cache holds has at most one
\* quote per tracked symbol, also when the body lists a symbol twice.
C22_OneQuotePerSymbol ==
  cache # << >> =>
    \A i, j \in DOMAIN cache.stablecoins :
      cache.stablecoins[i].symbol = cache.stablecoins[j].symbol => i = j

\* the four price probes of the normalization, each on its own
ProbeDirect(e) == "price" \in DOMAIN e /\ IsPositiveNumber(e.price)
ProbeChain(e) ==
  /\ "chainBalances" \in DOMAIN e
  /\ e.chainBalances.type = "dict"
  /\ "values" \in DOMAIN e.chainBalances
  /\ FirstChainPrice(e.chainBalances.values) # None
ProbeMarket(e) ==
  /\ "marketData" \in DOMAIN e
  /\ e.marketData.type = "dict"
  /\ "priceUSD" \in DOMAIN e.marketData.entries
  /\ IsPositiveNumber(e.marketData.entries.priceUSD)
ProbeSnake(e) == "price_usd" \in DOMAIN e /\ IsPositiveNumber(e.price_usd)

\* the entries the normalization is to keep: a tracked symbol after
\* uppercasing and a positive number under one of the four probes
Kept(item) ==
  /\ item.type = "dict"
  /\ "symbol" \in DOMAIN item.entries
  /\ item.entries.symbol.type = "str"
  /\ Upper(item.entries.symbol.chars) \in {USDC, USDT, DAI}
  /\ \/ ProbeDirect(item.entries)
     \/ ProbeChain(item.entries)
     \/ ProbeMarket(item.entries)
     \/ ProbeSnake(item.entries)

RECURSIVE KeptSymbols(_)
KeptSymbols(items) ==
  IF Len(items) = 0 THEN << >>
  ELSE (IF Kept(Head(items))
          THEN <<Upper(Head(items).entries.symbol.chars)>> ELSE << >>)
       \o KeptSymbols(Tail(items))

\* C23: a fetch whose body has an expected shape returns one quote for each
\* entry that has a tracked symbol (after uppercasing) and a positive number
\* under one of the four price probes, in the order of the body, and no
\* other quote; every quote has a tracked uppercase symbol and a positive
\* price.
C23_KeepsIffPriced ==
  [][\A answer \in UpstreamAnswers :
       (/\ called' = "get_stablecoin_prices"
        /\ ~FetchRaises(answer)
        /\ ~UnexpectedShape(answer.data)
        /\ \E i \in DOMAIN fetching : get_stablecoin_prices_resume(i, answer))
       => /\ Symbols(returned') = KeptSymbols(StablecoinsData(answer.data))
          /\ \A k \in DOMAIN returned' :
               /\ returned'[k].symbol \in {USDC, USDT, DAI}
               /\ returned'[k].price_usd > 0]_vars

\* the quotes of a list that carry the symbol, compared in upper case
QuotesOf(prices, symbol) ==
  {prices[k] : k \in {j \in DOMAIN prices : prices[j].symbol = Upper(symbol)}}

\* the result of a lookup over the list get_stablecoin_prices returned
FoundIn(prices, symbol, result) ==
  IF QuotesOf(prices, symbol) = {}
    THEN result = << >>
    ELSE result \in {<<quote>> : quote \in QuotesOf(prices, symbol)}

\* C24: get_specific_stablecoin raises ValueError for a symbol whose upper
\* case is not tracked, starting no upstream request and leaving the cache
\* and its timestamp alone; for a tracked symbol it never raises, and when it
\* completes (from a valid cache or after its fetch) it returns a quote with
\* that symbol from the list get_stablecoin_prices gives, or None when that
\* list has none.
C24_GetQuote ==
  [][/\ \A symbol \in SymbolArgs :
          get_specific_stablecoin(symbol) =>
            IF Upper(symbol) \notin {USDC, USDT, DAI}
              THEN /\ called' = "get_specific_stablecoin"
                   /\ raised' = "ValueError"
                   /\ UNCHANGED <<cache, cache_timestamp, fetching>>
              ELSE \/ fetching' = Append(fetching,
                                         Suspended("get_specific_stablecoin", symbol))
                   \/ /\ called' = "get_specific_stablecoin"
                      /\ raised' = "None"
                      /\ FoundIn(cache.stablecoins, symbol, returned')
     /\ called' = "get_specific_stablecoin" =>
          \A i \in DOMAIN fetching, answer \in UpstreamAnswers :
            get_specific_stablecoin_resume(i, answer) =>
              /\ raised' = "None"
              /\ Upper(fetching[i].symbol) \in {USDC, USDT, DAI}
              /\ FoundIn(IF FetchRaises(answer) THEN Fallback
                                                ELSE cache'.stablecoins,
                         fetching[i].symbol, returned')]_vars

\* C24 witness: a lookup of a tracked symbol given in lower case returned
\* its quote after a fetch.
C24_Witness ==
  /\ called = "get_specific_stablecoin"
  /\ raised = "None"
  /\ cache # << >>
  /\ returned \in {<<quote>> : quote \in QuotesOf(cache.stablecoins, USDC)}
  /\ cache_timestamp > 1

\* ------------------------------------------------------- payment tracker
\* the hashes the gateway produced for a record: every hash a send obtained
\* is entered in the index under the record's id
HashesOf(payment_id) ==
  {h \in DOMAIN tx_hash_to_payment : tx_hash_to_payment[h] = payment_id}

\* C25: the gateway produces at most one transaction per record: no record
\* has two hashes obtained by its sends.
C25_OneSubmissionPerRecord ==
  \A payment_id \in Payments : Cardinality(HashesOf(payment_id)) <= 1

\* C26: when cancel_payment has succeeded for a record while a send of that
\* record is suspended, the completion of the send leaves the record
\* cancelled and attaches no hash to it.
C26_CancelSurvivesSend ==
  [][\A payment_id \in Payments :
       (/\ called = "cancel_payment"
        /\ raised = "None"
        /\ returned = payment_id
        /\ in_flight[payment_id] > 0
        /\ payments_cache[payment_id].status = "cancelled"
        /\ \E outcome \in SendOutcomes : send_finish(payment_id, outcome))
       => /\ payments_cache'[payment_id].status = "cancelled"
          /\ payments_cache'[payment_id].tx_hash
               = payments_cache[payment_id].tx_hash]_vars

\* C27: every entry of the hash index names a stored record whose tx_hash is
\* the key of the entry.
C27_IndexAgreesWithRecords ==
  \A h \in DOMAIN tx_hash_to_payment :
    /\ Has(payments_cache, tx_hash_to_payment[h])
    /\ payments_cache[tx_hash_to_payment[h]].tx_hash = h

\* ------------------------------------- polling of a confirmed transaction
\* the receipt of a transaction that succeeded and has the required
\* confirmations
ConfirmedAnswer ==
  [kind |-> "receipt", status |-> 1, blockNumber |-> 1,
   current |-> 1 + REQUIRED_CONFIRMATIONS]

\* what the gateway answers once every transaction is confirmed
ConfirmedFor(payment_id) ==
  IF Has(payments_cache, payment_id) /\ payments_cache[payment_id].tx_hash # None
    THEN {ConfirmedAnswer}
    ELSE {NoAnswer}

\* a status read of one record: get_payment_status by id or
\* refresh_payment_status
Poll(payment_id) ==
  \E ans \in ConfirmedFor(payment_id) :
    \/ get_payment_status(payment_id, None, ans)
    \/ refresh_payment_status(payment_id, ans)

LiveNext ==
  \/ \E req \in CreateRequests :
       \E answer \in (IF CreateRejects(req) THEN {"true"} ELSE TokenAnswers) :
         create_payment(req, answer)
  \/ \E payment_id \in 1..MaxPayments : send_begin(payment_id)
  \/ \E payment_id \in 1..MaxPayments, outcome \in SendOutcomes :
       send_finish(payment_id, outcome)
  \/ \E payment_id \in 1..MaxPayments : Poll(payment_id)
  \/ \E payment_id \in 1..MaxPayments : cancel_payment(payment_id)

\* the tracker under a gateway that reports every transaction confirmed,
\* with every record polled again and again
LiveSpec ==
  /\ Init
  /\ [][LiveNext]_vars
  /\ \A payment_id \in 1..MaxPayments : WF_vars(Poll(payment_id))

HasStatus(payment_id, status) ==
  /\ Has(payments_cache, payment_id)
  /\ payments_cache[payment_id].status = status

\* C30: when the gateway reports every transaction as succeeded with the
\* required confirmations and every record is polled again and again, a
\* submitted record eventually has status success, and a status read of a
\* record that has status success leaves it success.
C30_PollingReachesSuccess ==
  /\ \A payment_id \in 1..MaxPayments :
       HasStatus(payment_id, "submitted") ~> HasStatus(payment_id, "success")
  /\ [][\A payment_id \in Payments :
          (HasStatus(payment_id, "success") /\ Poll(payment_id))
          => HasStatus(payment_id, "success")']_vars

\* C30 witness: a status read completed on a record that has status success
\* and the required confirmations.
C30_Witness ==
  /\ called \in {"get_payment_status", "refresh_payment_status"}
  /\ \E payment_id \in Payments :
       /\ payments_cache[payment_id].status = "success"
       /\ payments_cache[payment_id].confirmations >= REQUIRED_CONFIRMATIONS

\* ------------------------------------------------------------ price cache
\* C28: at most one upstream request is in flight at any time.
C28_OneFetchInFlight == Len(fetching) <= 1

====
